---- MODULE Spec2Model ----
(***************************************************************************)
(* Model of fetch_account_payables.py: get_account_payables (validation,   *)
(* one HTTP GET, JSON parse, shape check, linear scan, projection),        *)
(* display_account_payables, and the interactive entry point main.         *)
(*                                                                         *)
(* Python values are tagged records: the field t is the Python type and v  *)
(* the payload.  A dict is a function from its possible keys to a value or *)
(* to Missing (key absent).  A float is modelled only at integral values   *)
(* (v = n stands for n.0).                                                 *)
(***************************************************************************)
EXTENDS Integers, Sequences, FiniteSets, TLC

VARIABLES
    mode,        \* "main": the script is run; "direct": a caller calls the functions
    API_KEY,     \* main's API_KEY
    pc,          \* position in the program
    ticker,      \* get_account_payables' arguments (main's locals of the same name)
    year,
    api_key,
    requests,    \* the HTTP requests issued so far, in order
    response,    \* what requests.get returned
    data,        \* response.json()
    exc,         \* the last exception raised inside get_account_payables
    outcome,     \* how get_account_payables ended: "pending", "returned", "raised"
    result,      \* its return value
    stdin,       \* the lines main has read from standard input
    out,         \* standard output, one entry per line
    displayExc,  \* the exception display_account_payables raised
    exitStatus,  \* the process exit status, -1 while running
    uncaught     \* the exception that ended main with a traceback

vars == <<mode, API_KEY, pc, ticker, year, api_key, requests, response, data,
          exc, outcome, result, stdin, out, displayExc, exitStatus,
          uncaught>>

-----------------------------------------------------------------------------
(* Bounds of the model *)

MaxRecords == 2

-----------------------------------------------------------------------------
(* Python values *)

None == [t |-> "none"]
Missing == [t |-> "missing"]
Unset == [t |-> "unset"]
StrV(s) == [t |-> "str", v |-> s]
IntV(n) == [t |-> "int", v |-> n]
FloatV(n) == [t |-> "float", v |-> n]
BoolV(b) == [t |-> "bool", v |-> b]
ListV(s) == [t |-> "list", v |-> s]
DictV(f) == [t |-> "dict", v |-> f]

IsStr(x) == x.t = "str"
\* isinstance(x, int): bool is a subclass of int
IsInt(x) == x.t \in {"int", "bool"}
IsList(x) == x.t = "list"
IsDict(x) == x.t = "dict"
IsNumber(x) == x.t \in {"int", "bool", "float"}

\* bool(x)
Truthy(x) ==
    CASE x.t = "none" -> FALSE
      [] x.t = "str" -> x.v # ""
      [] x.t \in {"int", "bool", "float"} -> x.v # 0
      [] x.t = "list" -> Len(x.v) > 0
      [] x.t = "dict" -> \E k \in DOMAIN x.v : x.v[k] # Missing
      [] OTHER -> FALSE

\* a == b: numbers compare by value across int, bool and float; a string
\* equals only an equal string; None equals only None
PyEq(a, b) ==
    \/ IsNumber(a) /\ IsNumber(b) /\ a.v = b.v
    \/ a.t = "str" /\ b.t = "str" /\ a.v = b.v
    \/ a.t = "none" /\ b.t = "none"

\* d.get(k): the value, or None when the key is absent
DictGet(d, k) == IF d.v[k] = Missing THEN None ELSE d.v[k]

\* d.get(k, default)
DictGetDefault(d, k, default) == IF d.v[k] = Missing THEN default ELSE d.v[k]

-----------------------------------------------------------------------------
(* Program constants *)

MinYear == 1900
MaxYear == 2100
RequestTimeout == 10
PLACEHOLDER == "INSERT YOUR API KEY"
HeaderKeyLiteral == "APIKEYINSERT"

SummaryKeys == {"ticker", "company_name", "year", "period", "filing_date",
                "accepted_date", "accountPayables", "currency"}

-----------------------------------------------------------------------------
(* Text typed at the prompts of main: sequences of characters *)

Whitespace == {" "}
Digits == {"0", "1", "2", "5", "8", "9"}

DigitValue(c) ==
    CASE c = "0" -> 0 [] c = "1" -> 1 [] c = "2" -> 2
      [] c = "5" -> 5 [] c = "8" -> 8 [] c = "9" -> 9

RECURSIVE LStrip(_)
LStrip(s) ==
    IF s # <<>> /\ Head(s) \in Whitespace THEN LStrip(Tail(s)) ELSE s

RECURSIVE RStrip(_)
RStrip(s) ==
    IF s # <<>> /\ s[Len(s)] \in Whitespace
    THEN RStrip(SubSeq(s, 1, Len(s) - 1)) ELSE s

\* str.strip()
Strip(s) == RStrip(LStrip(s))

UpperChar(c) == IF c = "x" THEN "X" ELSE c

\* str.upper()
Upper(s) == [i \in 1..Len(s) |-> UpperChar(s[i])]

\* the characters of a line as one string
RECURSIVE Join(_)
Join(s) == IF s = <<>> THEN "" ELSE Head(s) \o Join(Tail(s))

RECURSIVE DigitsValue(_, _)
DigitsValue(s, acc) ==
    IF s = <<>> THEN acc
    ELSE IF Head(s) = "_" THEN DigitsValue(Tail(s), acc)
    ELSE DigitsValue(Tail(s), 10 * acc + DigitValue(Head(s)))

\* the digit part of an integer literal: digits, with single underscores
\* allowed between digits
DigitsOK(s) ==
    /\ s # <<>>
    /\ \A i \in 1..Len(s) : s[i] \in Digits \cup {"_"}
    /\ s[1] \in Digits
    /\ s[Len(s)] \in Digits
    /\ \A i \in 1..(Len(s) - 1) : ~(s[i] = "_" /\ s[i + 1] = "_")

\* int(text): surrounding whitespace ignored, optional sign, digits;
\* ok = FALSE stands for ValueError
ParseInt(text) ==
    LET s == Strip(text)
        signed == s # <<>> /\ Head(s) \in {"+", "-"}
        body == IF signed THEN Tail(s) ELSE s
    IN  IF ~DigitsOK(body) THEN [ok |-> FALSE, v |-> 0]
        ELSE IF signed /\ Head(s) = "-"
             THEN [ok |-> TRUE, v |-> 0 - DigitsValue(body, 0)]
             ELSE [ok |-> TRUE, v |-> DigitsValue(body, 0)]

TickerInputs == { <<>>, <<" ">>, <<"x">>, <<" ", "X", " ">> }

YearInputs == { <<>>, <<"a">>, <<"2", "0", ".", "5">>, <<"-", "5">>,
                <<"1", "8", "9", "9">>, <<"1", "9", "0", "0">>,
                <<" ", "2", "0", "2", "5", " ">>, <<"2", "_", "0", "2", "5">>,
                <<"2", "1", "0", "0">>, <<"2", "1", "0", "1">> }

\* values main's API_KEY may have been set to by the operator
ApiKeys == {PLACEHOLDER, "", "k1", "k2"}

-----------------------------------------------------------------------------
(* Arguments of a direct call of get_account_payables *)

TickerArgs == {StrV(""), StrV("X"), IntV(5), None}

YearArgs == {IntV(1899), IntV(1900), IntV(2025), IntV(2100), IntV(2101),
             StrV("2025"), FloatV(2025), BoolV(1), None}

KeyArgs == {StrV(""), StrV("k1"), StrV("k2"), IntV(7), None}

-----------------------------------------------------------------------------
(* get_account_payables: validation, lines 24-31 *)

\* ValidateArgs with the lower year bound off by one (<= for <)
ValidateArgsOffByOne(t, y, k) ==
    IF ~Truthy(t) \/ ~IsStr(t)
    THEN "Ticker must be a non-empty string"
    ELSE IF ~IsInt(y) \/ y.v <= MinYear \/ y.v > MaxYear
    THEN "Year must be a valid integer between 1900 and 2100"
    ELSE IF ~Truthy(k) \/ ~IsStr(k)
    THEN "API key must be a non-empty string"
    ELSE "ok"

\* "ok", or the message of the ValueError raised
ValidateArgs(t, y, k) ==
    IF ~Truthy(t) \/ ~IsStr(t)
    THEN "Ticker must be a non-empty string"
    ELSE IF ~IsInt(y) \/ y.v < MinYear \/ y.v > MaxYear
    THEN "Year must be a valid integer between 1900 and 2100"
    ELSE IF ~Truthy(k) \/ ~IsStr(k)
    THEN "API key must be a non-empty string"
    ELSE "ok"

\* lines 34-45: the request handed to requests.get
BuildUrl(t) == "https://ac-api-server.vercel.app/server/company/" \o t.v

BuildHeaders(k) ==
    ("x-api-key" :> HeaderKeyLiteral) @@ ("Content-Type" :> "application/json")

BuildRequest(t, k) ==
    [method |-> "GET", url |-> BuildUrl(t), headers |-> BuildHeaders(k),
     timeout |-> RequestTimeout]

-----------------------------------------------------------------------------
(* What the remote server and the transport can answer *)

\* one element of the payload's data list
Rec(cy, ap, sym, cur, rest) ==
    DictV([calendarYear |-> cy, accountPayables |-> ap, symbol |-> sym,
           reportedCurrency |-> cur, company_name |-> rest, period |-> rest,
           fillingDate |-> rest, acceptedDate |-> rest])

RecordPool ==
    { Rec(IntV(2025), IntV(700), StrV("X"), StrV("USD"), StrV("r")),
      Rec(IntV(2025), IntV(500), StrV("Y"), StrV("INR"), StrV("q")),
      Rec(IntV(2024), IntV(500), Missing, Missing, Missing),
      Rec(IntV(2025), Missing, Missing, Missing, Missing),
      Rec(IntV(2025), None, StrV("X"), None, StrV("r")),
      Rec(IntV(2025), StrV("n/a"), StrV("X"), StrV("USD"), StrV("r")),
      Rec(FloatV(2025), IntV(700), StrV("X"), StrV("USD"), Missing),
      Rec(StrV("2025"), IntV(700), StrV("X"), StrV("USD"), Missing),
      Rec(Missing, IntV(700), StrV("X"), StrV("USD"), Missing),
      StrV("junk") }

RecordLists ==
    UNION { [1..n -> RecordPool] : n \in 1..MaxRecords }

StatusValues == {Missing, StrV("success"), StrV("error")}

DataValues ==
    {Missing, None, ListV(<<>>), StrV("oops"),
     Rec(IntV(2025), IntV(700), StrV("X"), StrV("USD"), StrV("r"))}
    \cup { ListV(l) : l \in RecordLists }

\* a body that is valid JSON, as parsed by response.json()
Payloads ==
    {ListV(<<>>), StrV("ok")}
    \cup { DictV([status |-> st, data |-> d]) : st \in StatusValues,
                                                 d \in DataValues }

\* a body that is not JSON
NotJson == [t |-> "notjson"]

Bodies == {NotJson} \cup Payloads

\* final statuses requests.get can hand back (redirects with a Location are
\* followed by the library; 304 is returned as it is)
OkStatuses == {200, 304}
ErrorStatuses == {404, 500}

\* exceptions requests.get can raise
TransportErrors == {"Timeout", "ConnectionError", "TooManyRedirects"}

RequestOutcomes ==
    { [kind |-> "raise", exc |-> e] : e \in TransportErrors }
    \cup { [kind |-> "response", status_code |-> sc, body |-> NotJson] :
             sc \in ErrorStatuses }
    \cup { [kind |-> "response", status_code |-> sc, body |-> b] :
             sc \in OkStatuses, b \in Bodies }

NoResponse == [kind |-> "none"]

-----------------------------------------------------------------------------
(* get_account_payables: lines 46-97 *)

\* response.raise_for_status(), line 46: HTTPError for 4xx and 5xx
RaisesForStatus(resp) == resp.status_code >= 400 /\ resp.status_code < 600

\* ShapeCheck without the test of the status field
ShapeCheckNoStatus(d) ==
    IF ~IsDict(d)
    THEN [kind |-> "raise", exc |-> "AttributeError"]
    ELSE IF ~Truthy(DictGet(d, "data"))
    THEN [kind |-> "none", msg |-> "API Error"]
    ELSE IF ~IsList(DictGetDefault(d, "data", ListV(<<>>)))
    THEN [kind |-> "none",
          msg |-> "Error: Expected data to be a list of records"]
    ELSE [kind |-> "scan",
          records |-> DictGetDefault(d, "data", ListV(<<>>)).v]

\* lines 52-61: "raise" (data has no get), "none" (return None, with the
\* diagnostic printed) or "scan" (go on to the loop)
ShapeCheck(d) ==
    IF ~IsDict(d)
    THEN [kind |-> "raise", exc |-> "AttributeError"]
    ELSE IF ~PyEq(DictGet(d, "status"), StrV("success"))
            \/ ~Truthy(DictGet(d, "data"))
    THEN [kind |-> "none", msg |-> "API Error"]
    ELSE IF ~IsList(DictGetDefault(d, "data", ListV(<<>>)))
    THEN [kind |-> "none",
          msg |-> "Error: Expected data to be a list of records"]
    ELSE [kind |-> "scan",
          records |-> DictGetDefault(d, "data", ListV(<<>>)).v]

\* Project with the accepted_date entry left out
ProjectDropsField(record) ==
    DictV([ticker |-> DictGet(record, "symbol"),
           company_name |-> DictGet(record, "company_name"),
           year |-> DictGet(record, "calendarYear"),
           period |-> DictGet(record, "period"),
           filing_date |-> DictGet(record, "fillingDate"),
           accountPayables |-> DictGet(record, "accountPayables"),
           currency |-> DictGet(record, "reportedCurrency")])

\* lines 67-76
Project(record) ==
    DictV([ticker |-> DictGet(record, "symbol"),
           company_name |-> DictGet(record, "company_name"),
           year |-> DictGet(record, "calendarYear"),
           period |-> DictGet(record, "period"),
           filing_date |-> DictGet(record, "fillingDate"),
           accepted_date |-> DictGet(record, "acceptedDate"),
           accountPayables |-> DictGet(record, "accountPayables"),
           currency |-> DictGet(record, "reportedCurrency")])

\* line 65
Matches(record, y) == PyEq(DictGet(record, "calendarYear"), y)

\* lines 64-81, the loop from element i on
RECURSIVE ScanFrom(_, _, _)
ScanFrom(records, i, y) ==
    IF i > Len(records)
    THEN [kind |-> "none", msg |-> "No data found for year"]
    ELSE IF ~IsDict(records[i])
    THEN [kind |-> "raise", exc |-> "AttributeError"]
    ELSE IF Matches(records[i], y)
    THEN [kind |-> "return", value |-> Project(records[i])]
    ELSE ScanFrom(records, i + 1, y)

\* the loop without its early return: the last matching record wins
RECURSIVE ScanKeepLast(_, _, _, _)
ScanKeepLast(records, i, y, found) ==
    IF i > Len(records)
    THEN found
    ELSE IF ~IsDict(records[i])
    THEN [kind |-> "raise", exc |-> "AttributeError"]
    ELSE IF Matches(records[i], y)
    THEN ScanKeepLast(records, i + 1, y,
                      [kind |-> "return", value |-> Project(records[i])])
    ELSE ScanKeepLast(records, i + 1, y, found)

ScanRecordsLastMatch(records, y) ==
    ScanKeepLast(records, 1, y,
                 [kind |-> "none", msg |-> "No data found for year"])

ScanRecords(records, y) == ScanFrom(records, 1, y)

\* lines 83-97: the except clauses, in order; the last one takes every
\* subclass of Exception
ExceptionClasses ==
    {"Timeout", "ConnectionError", "HTTPError", "JSONDecodeError",
     "TooManyRedirects", "AttributeError"}

\* the handlers without the HTTPError clause and without the catch-all
CaughtTransportOnly(e) ==
    e \in {"Timeout", "ConnectionError", "JSONDecodeError"}

Caught(e) == e \in ExceptionClasses

HandlerMessage(e) ==
    CASE e = "Timeout" -> "Request timed out while fetching data"
      [] e = "ConnectionError" -> "Connection error while fetching data"
      [] e = "HTTPError" -> "HTTP Error"
      [] e = "JSONDecodeError" -> "Error: Could not parse API response as JSON"
      [] OTHER -> "Unexpected error"

-----------------------------------------------------------------------------
(* display_account_payables, lines 107-122 *)

\* format(v, " ,"): "ok", or the exception raised
FormatSignComma(v) ==
    CASE IsNumber(v) -> "ok"
      [] v.t = "str" -> "ValueError"
      [] OTHER -> "TypeError"

ReportHead ==
    <<"banner", "ACCOUNT PAYABLES INFORMATION", "banner", "Company",
      "Ticker", "Year", "Period", "Filing Date", "Currency", "divider">>

ReportTail == <<"Account Payables", "closing banner">>

\* the lines written and the exception raised ("none" when it returns)
Display(r) ==
    IF r = None
    THEN [lines |-> <<"No data to display">>, exc |-> "none"]
    ELSE IF FormatSignComma(r.v.accountPayables) = "ok"
    THEN [lines |-> ReportHead \o ReportTail, exc |-> "none"]
    ELSE [lines |-> ReportHead, exc |-> FormatSignComma(r.v.accountPayables)]

-----------------------------------------------------------------------------
(* The state machine *)

Init ==
    /\ mode \in {"main", "direct"}
    /\ API_KEY \in (IF mode = "main" THEN ApiKeys ELSE {PLACEHOLDER})
    /\ pc = (IF mode = "main" THEN "main_key" ELSE "direct_call")
    /\ ticker = Unset
    /\ year = Unset
    /\ api_key = Unset
    /\ requests = <<>>
    /\ response = NoResponse
    /\ data = Unset
    /\ exc = "none"
    /\ outcome = "pending"
    /\ result = Unset
    /\ stdin = <<>>
    /\ out = <<>>
    /\ displayExc = "none"
    /\ exitStatus = -1
    /\ uncaught = "none"

\* MainCheckKey without the placeholder test
MainCheckKeyNoExit ==
    /\ pc = "main_key"
    /\ out' = out \o <<"banner", "COMPANY ACCOUNT PAYABLES FETCHER", "banner">>
    /\ pc' = "main_ticker"
    /\ UNCHANGED <<stdin, mode, API_KEY, ticker, year, api_key, requests,
                   response, data, exc, outcome, result, displayExc,
                   exitStatus, uncaught>>

\* main, lines 130-141
MainCheckKey ==
    /\ pc = "main_key"
    /\ IF API_KEY = PLACEHOLDER
       THEN /\ out' = out \o <<"Error: Please set your API key",
                               "Replace 'INSERT YOUR API KEY'">>
            /\ exitStatus' = 1
            /\ pc' = "exited"
       ELSE /\ out' = out \o <<"banner", "COMPANY ACCOUNT PAYABLES FETCHER",
                               "banner">>
            /\ exitStatus' = exitStatus
            /\ pc' = "main_ticker"
    /\ UNCHANGED <<stdin, mode, API_KEY, ticker, year, api_key, requests, response,
                   data, exc, outcome, result, displayExc, uncaught>>

\* main, lines 144-148
MainReadTicker ==
    /\ pc = "main_ticker"
    /\ \E inp \in TickerInputs :
         LET t == Join(Upper(Strip(inp)))
         IN  /\ stdin' = Append(stdin, inp)
             /\ IF ~Truthy(StrV(t))
                THEN /\ out' = out \o <<"Enter company ticker",
                                        "Error: Ticker cannot be empty">>
                     /\ exitStatus' = 1
                     /\ pc' = "exited"
                     /\ ticker' = ticker
                ELSE /\ out' = Append(out, "Enter company ticker")
                     /\ exitStatus' = exitStatus
                     /\ pc' = "main_year"
                     /\ ticker' = StrV(t)
    /\ UNCHANGED <<mode, API_KEY, year, api_key, requests, response, data,
                   exc, outcome, result, displayExc, uncaught>>

\* main, lines 151-160: read the year, then call get_account_payables
MainReadYear ==
    /\ pc = "main_year"
    /\ \E inp \in YearInputs :
         LET p == ParseInt(Strip(inp))
         IN  /\ stdin' = Append(stdin, inp)
             /\ IF ~p.ok
                THEN /\ out' = out \o <<"Enter the year",
                                        "Error: Year must be a valid integer">>
                     /\ exitStatus' = 1
                     /\ pc' = "exited"
                     /\ UNCHANGED <<year, api_key>>
                ELSE /\ out' = Append(out, "Enter the year")
                     /\ exitStatus' = exitStatus
                     /\ pc' = "validate"
                     /\ year' = IntV(p.v)
                     /\ api_key' = StrV(API_KEY)
    /\ UNCHANGED <<mode, API_KEY, ticker, requests, response, data, exc,
                   outcome, result, displayExc, uncaught>>

\* a caller other than main calls get_account_payables(ticker, year, api_key)
DirectCall ==
    /\ pc = "direct_call"
    /\ \E t \in TickerArgs, y \in YearArgs, k \in KeyArgs :
         /\ ticker' = t
         /\ year' = y
         /\ api_key' = k
    /\ pc' = "validate"
    /\ UNCHANGED <<stdin, mode, API_KEY, requests, response, data, exc, outcome,
                   result, out, displayExc, exitStatus, uncaught>>

\* get_account_payables, lines 24-31
Validate ==
    /\ pc = "validate"
    /\ IF ValidateArgs(ticker, year, api_key) = "ok"
       THEN /\ pc' = "request"
            /\ UNCHANGED <<exc, outcome>>
       ELSE /\ pc' = "raised"
            /\ exc' = "ValueError"
            /\ outcome' = "raised"
    /\ UNCHANGED <<stdin, mode, API_KEY, ticker, year, api_key, requests, response,
                   data, result, out, displayExc, exitStatus, uncaught>>

\* lines 34-45: build the request and send it; the answer is the
\* environment's choice
Request ==
    /\ pc = "request"
    /\ out' = Append(out, "Fetching data")
    /\ requests' = Append(requests, BuildRequest(ticker, api_key))
    /\ \E o \in RequestOutcomes :
         IF o.kind = "raise"
         THEN /\ exc' = o.exc
              /\ pc' = "except"
              /\ response' = response
         ELSE /\ response' = o
              /\ pc' = "raise_for_status"
              /\ exc' = exc
    /\ UNCHANGED <<stdin, mode, API_KEY, ticker, year, api_key, data, outcome,
                   result, displayExc, exitStatus, uncaught>>

\* line 46
RaiseForStatus ==
    /\ pc = "raise_for_status"
    /\ IF RaisesForStatus(response)
       THEN /\ exc' = "HTTPError"
            /\ pc' = "except"
       ELSE /\ exc' = exc
            /\ pc' = "json"
    /\ UNCHANGED <<stdin, mode, API_KEY, ticker, year, api_key, requests, response,
                   data, outcome, result, out, displayExc, exitStatus,
                   uncaught>>

\* line 49
ParseJson ==
    /\ pc = "json"
    /\ IF response.body = NotJson
       THEN /\ exc' = "JSONDecodeError"
            /\ pc' = "except"
            /\ data' = data
       ELSE /\ data' = response.body
            /\ pc' = "shape"
            /\ exc' = exc
    /\ UNCHANGED <<stdin, mode, API_KEY, ticker, year, api_key, requests, response,
                   outcome, result, out, displayExc, exitStatus, uncaught>>

\* lines 52-61
CheckShape ==
    /\ pc = "shape"
    /\ LET r == ShapeCheck(data)
       IN  CASE r.kind = "raise" ->
                  /\ exc' = r.exc
                  /\ pc' = "except"
                  /\ UNCHANGED <<outcome, result, out>>
             [] r.kind = "none" ->
                  /\ out' = Append(out, r.msg)
                  /\ result' = None
                  /\ outcome' = "returned"
                  /\ pc' = "returned"
                  /\ exc' = exc
             [] r.kind = "scan" ->
                  /\ pc' = "scan"
                  /\ UNCHANGED <<exc, outcome, result, out>>
    /\ UNCHANGED <<stdin, mode, API_KEY, ticker, year, api_key, requests, response,
                   data, displayExc, exitStatus, uncaught>>

\* lines 64-81
Scan ==
    /\ pc = "scan"
    /\ LET r == ScanRecords(ShapeCheck(data).records, year)
       IN  CASE r.kind = "raise" ->
                  /\ exc' = r.exc
                  /\ pc' = "except"
                  /\ UNCHANGED <<outcome, result, out>>
             [] r.kind = "none" ->
                  /\ out' = Append(out, r.msg)
                  /\ result' = None
                  /\ outcome' = "returned"
                  /\ pc' = "returned"
                  /\ exc' = exc
             [] r.kind = "return" ->
                  /\ result' = r.value
                  /\ outcome' = "returned"
                  /\ pc' = "returned"
                  /\ UNCHANGED <<exc, out>>
    /\ UNCHANGED <<stdin, mode, API_KEY, ticker, year, api_key, requests, response,
                   data, displayExc, exitStatus, uncaught>>

\* Except with one retry of the request after a timeout
ExceptRetry ==
    /\ pc = "except"
    /\ IF exc = "Timeout" /\ Len(requests) < 2
       THEN /\ pc' = "request"
            /\ UNCHANGED <<out, result, outcome>>
       ELSE /\ out' = Append(out, HandlerMessage(exc))
            /\ result' = None
            /\ outcome' = "returned"
            /\ pc' = "returned"
    /\ UNCHANGED <<stdin, mode, API_KEY, ticker, year, api_key, requests,
                   response, data, exc, displayExc, exitStatus, uncaught>>

\* lines 83-97: the exception raised in the try block meets the handlers
Except ==
    /\ pc = "except"
    /\ IF Caught(exc)
       THEN /\ out' = Append(out, HandlerMessage(exc))
            /\ result' = None
            /\ outcome' = "returned"
            /\ pc' = "returned"
       ELSE /\ outcome' = "raised"
            /\ pc' = "raised"
            /\ UNCHANGED <<out, result>>
    /\ UNCHANGED <<stdin, mode, API_KEY, ticker, year, api_key, requests, response,
                   data, exc, displayExc, exitStatus, uncaught>>

\* main, lines 163-171, after get_account_payables returned
MainDisplay ==
    /\ pc = "returned"
    /\ mode = "main"
    /\ IF Truthy(result)
       THEN LET d == Display(result)
            IN  /\ displayExc' = d.exc
                /\ CASE d.exc = "none" ->
                          /\ out' = out \o d.lines
                                        \o <<"Successfully retrieved">>
                          /\ exitStatus' = 0
                          /\ uncaught' = uncaught
                     [] d.exc = "ValueError" ->
                          /\ out' = out \o d.lines \o <<"Error">>
                          /\ exitStatus' = 1
                          /\ uncaught' = uncaught
                     [] OTHER ->
                          /\ out' = out \o d.lines
                          /\ exitStatus' = 1
                          /\ uncaught' = d.exc
       ELSE /\ out' = Append(out, "Failed to retrieve data")
            /\ exitStatus' = 0
            /\ UNCHANGED <<displayExc, uncaught>>
    /\ pc' = "exited"
    /\ UNCHANGED <<stdin, mode, API_KEY, ticker, year, api_key, requests, response,
                   data, exc, outcome, result>>

\* main, lines 169-171, after get_account_payables raised
MainExcept ==
    /\ pc = "raised"
    /\ mode = "main"
    /\ IF exc = "ValueError"
       THEN /\ out' = Append(out, "Error")
            /\ uncaught' = uncaught
       ELSE /\ out' = out
            /\ uncaught' = exc
    /\ exitStatus' = 1
    /\ pc' = "exited"
    /\ UNCHANGED <<stdin, mode, API_KEY, ticker, year, api_key, requests, response,
                   data, exc, outcome, result, displayExc>>

\* the caller hands the value it got to display_account_payables
DirectDisplay ==
    /\ pc = "returned"
    /\ mode = "direct"
    /\ LET d == Display(result)
       IN  /\ out' = out \o d.lines
           /\ displayExc' = d.exc
    /\ pc' = "done"
    /\ UNCHANGED <<stdin, mode, API_KEY, ticker, year, api_key, requests, response,
                   data, exc, outcome, result, exitStatus, uncaught>>

Next ==
    \/ MainCheckKey
    \/ MainReadTicker
    \/ MainReadYear
    \/ DirectCall
    \/ Validate
    \/ Request
    \/ RaiseForStatus
    \/ ParseJson
    \/ CheckShape
    \/ Scan
    \/ Except
    \/ MainDisplay
    \/ MainExcept
    \/ DirectDisplay

Spec == Init /\ [][Next]_vars

-----------------------------------------------------------------------------
(* Vocabulary of the properties *)

\* get_account_payables has been called and its validation has run
ValidationDone == api_key # Unset /\ pc # "validate"

RaisedValueError == outcome = "raised" /\ exc = "ValueError"

BadTicker == ticker.t # "str" \/ ticker.v = ""
BadYear == year.t \notin {"int", "bool"} \/ year.v < 1900 \/ year.v > 2100
BadKey == api_key.t # "str" \/ api_key.v = ""
BadArgs == BadTicker \/ BadYear \/ BadKey

\* the parsed payload has status "success" and a non-empty list of mappings
ListOfRecords ==
    /\ data.t = "dict"
    /\ data.v.status = StrV("success")
    /\ data.v.data.t = "list"
    /\ Len(data.v.data.v) > 0
    /\ \A i \in 1..Len(data.v.data.v) : data.v.data.v[i].t = "dict"

Recs == data.v.data.v

FieldOrNull(rec, k) == IF rec.v[k] = Missing THEN None ELSE rec.v[k]

\* the eight-field summary of a record
SummaryOf(rec) ==
    [t |-> "dict",
     v |-> [ticker |-> FieldOrNull(rec, "symbol"),
            company_name |-> FieldOrNull(rec, "company_name"),
            year |-> FieldOrNull(rec, "calendarYear"),
            period |-> FieldOrNull(rec, "period"),
            filing_date |-> FieldOrNull(rec, "fillingDate"),
            accepted_date |-> FieldOrNull(rec, "acceptedDate"),
            accountPayables |-> FieldOrNull(rec, "accountPayables"),
            currency |-> FieldOrNull(rec, "reportedCurrency")]]

\* the record's calendarYear is the integer year itself
IntegerMatch(rec) == rec.v.calendarYear = year

\* the record's calendarYear is a number of the same value as year
NumericMatch(rec) ==
    /\ rec.v.calendarYear.t \in {"int", "float", "bool"}
    /\ rec.v.calendarYear.v = year.v

-----------------------------------------------------------------------------
(* Properties *)

\* C1: get_account_payables raises ValueError, with no HTTP request issued,
\* exactly when the ticker is empty or not a string, the year is not an
\* integer or is outside [1900, 2100], or the api key is empty or not a
\* string; 1900 and 2100 pass, 1899 and 2101 are rejected.
C1_ValidationRejects ==
    ValidationDone =>
        /\ BadArgs <=> RaisedValueError
        /\ RaisedValueError => requests = <<>>
        /\ (~BadTicker /\ ~BadKey /\ year \in {IntV(1900), IntV(2100)})
              => ~RaisedValueError
        /\ year \in {IntV(1899), IntV(2101)} => RaisedValueError

C1_Witness ==
    /\ RaisedValueError
    /\ year = IntV(2101)
    /\ ~BadTicker
    /\ ~BadKey
    /\ requests = <<>>

\* C2: every request issued carries the caller's api key as the value of the
\* x-api-key header, together with Content-Type: application/json.
C2_HeaderCarriesKey ==
    \A i \in 1..Len(requests) :
        /\ requests[i].headers["x-api-key"] = api_key.v
        /\ requests[i].headers["Content-Type"] = "application/json"

\* C3 as stated: on a successful payload with a non-empty list of records
\* the call returns the summary of the first record whose calendarYear is
\* the integer year (no coercion), and None iff there is no such record.
C3_FirstIntegerMatch ==
    (ListOfRecords /\ outcome = "returned") =>
        IF \E i \in 1..Len(Recs) : IntegerMatch(Recs[i])
        THEN LET first == CHOOSE i \in 1..Len(Recs) :
                            /\ IntegerMatch(Recs[i])
                            /\ \A j \in 1..(i - 1) : ~IntegerMatch(Recs[j])
             IN  result = SummaryOf(Recs[first])
        ELSE result = None

\* C3 as amended: the comparison is numeric equality, so the first record
\* whose calendarYear is an integer or a float of the same value as year is
\* returned (a string is never coerced); None iff there is no such record.
C3_FirstNumericMatch ==
    (ListOfRecords /\ outcome = "returned") =>
        IF \E i \in 1..Len(Recs) : NumericMatch(Recs[i])
        THEN LET first == CHOOSE i \in 1..Len(Recs) :
                            /\ NumericMatch(Recs[i])
                            /\ \A j \in 1..(i - 1) : ~NumericMatch(Recs[j])
             IN  result = SummaryOf(Recs[first])
        ELSE result = None

C3_Witness ==
    /\ ListOfRecords
    /\ outcome = "returned"
    /\ Len(Recs) = 2
    /\ NumericMatch(Recs[1])
    /\ NumericMatch(Recs[2])
    /\ SummaryOf(Recs[1]) # SummaryOf(Recs[2])
    /\ result = SummaryOf(Recs[1])

\* main has ended
MainExited == mode = "main" /\ pc = "exited"

\* the line typed at the ticker prompt is empty after trimming
EmptyTickerInput ==
    /\ Len(stdin) >= 1
    /\ \A i \in 1..Len(stdin[1]) : stdin[1][i] \in Whitespace

\* the line typed at the year prompt is not an integer literal
BadYearInput == Len(stdin) >= 2 /\ ~ParseInt(stdin[2]).ok

\* C4: main ends with status 0 on every run that gets past validation
\* (record found and displayed, or no data), whatever the matched record
\* holds; status 1 or an abnormal end occurs only for the placeholder key,
\* an empty ticker, a non-integer year or a validation failure.
C4_ExitZeroPastValidation ==
    MainExited =>
        /\ (ValidationDone /\ ~RaisedValueError)
              => (exitStatus = 0 /\ uncaught = "none")
        /\ (exitStatus # 0 \/ uncaught # "none")
              => \/ API_KEY = PLACEHOLDER
                 \/ EmptyTickerInput
                 \/ BadYearInput
                 \/ RaisedValueError

\* the response's status is one raise_for_status raises for
HttpErrorStatus ==
    /\ response.kind = "response"
    /\ pc # "raise_for_status"
    /\ response.status_code >= 400
    /\ response.status_code <= 599

\* the response's status is outside 200..299
Non2xxStatus ==
    /\ response.kind = "response"
    /\ pc # "raise_for_status"
    /\ (response.status_code < 200 \/ response.status_code > 299)

\* the try block raised: timeout, connection failure, HTTP error, body that
\* is not JSON, or anything else
TryBlockRaised == exc \in ExceptionClasses

\* a failed fetch is logged and turned into None, never raised, and main
\* then ends with status 0
FailureBecomesNone ==
    /\ outcome # "raised"
    /\ outcome = "returned" => result = None
    /\ MainExited => (exitStatus = 0 /\ uncaught = "none")

BadShape ==
    /\ data.t = "dict"
    /\ pc # "shape"
    /\ \/ data.v.status # StrV("success")
       \/ data.v.data.t # "list"
       \/ data.v.data = ListV(<<>>)

\* C6: a payload that fails the shape check (status not "success", data
\* absent or empty, or data not a sequence) makes get_account_payables
\* return None without raising, and nothing is projected.
C6_BadShapeReturnsNone ==
    BadShape => (outcome = "returned" /\ result = None /\ exc = "none")

C6_Witness ==
    /\ BadShape
    /\ data.v.status = StrV("success")
    /\ data.v.data = StrV("oops")
    /\ outcome = "returned"
    /\ result = None

\* a summary was handed to display_account_payables
DisplayedSummary == pc \in {"exited", "done"} /\ result.t = "dict"

\* C7: a match is projected to exactly the eight fields, missing ones as
\* null, and for every such summary display_account_payables writes the
\* whole report up to the closing banner and returns without raising.
C7_DisplayCompletes ==
    /\ result.t = "dict" =>
          /\ DOMAIN result.v = SummaryKeys
          /\ \E i \in 1..Len(Recs) : result = SummaryOf(Recs[i])
    /\ DisplayedSummary =>
          /\ displayExc = "none"
          /\ \E i \in 1..Len(out) : out[i] = "closing banner"

\* C8: main ends with a non-zero status and no HTTP request whenever the key
\* is the placeholder, the ticker input is empty after trimming, the year
\* input is not an integer, or validation fails; with the placeholder key it
\* ends before any prompt is written or any input read.
C8_FatalInputsExitNonZero ==
    /\ (mode = "main" /\ pc # "main_key" /\ API_KEY = PLACEHOLDER)
          => (pc = "exited" /\ exitStatus = 1 /\ stdin = <<>>
              /\ requests = <<>>
              /\ \A i \in 1..Len(out) :
                   out[i] \notin {"banner", "Enter company ticker",
                                  "Enter the year"})
    /\ (mode = "main" /\ pc # "main_ticker" /\ EmptyTickerInput)
          => (pc = "exited" /\ exitStatus = 1 /\ requests = <<>>)
    /\ (mode = "main" /\ pc # "main_year" /\ BadYearInput)
          => (pc = "exited" /\ exitStatus = 1 /\ requests = <<>>)
    /\ (mode = "main" /\ ValidationDone /\ BadArgs)
          => (requests = <<>> /\ (pc = "exited" => exitStatus = 1))

C8_Witness ==
    /\ MainExited
    /\ API_KEY = "k1"
    /\ year = IntV(2101)
    /\ RaisedValueError
    /\ exitStatus = 1
    /\ requests = <<>>

\* the request has been sent
PastRequest ==
    pc \in {"raise_for_status", "json", "shape", "scan", "except"}
    \/ outcome = "returned"
    \/ (outcome = "raised" /\ exc # "ValueError")

\* C9: at most one HTTP GET per call: exactly one once validation has passed
\* and the request step has run, none when validation fails; a failure path
\* goes straight to the return of None with no further request.
C9_SingleRequestNoRetry ==
    /\ [](/\ Len(requests) <= 1
          /\ PastRequest => Len(requests) = 1
          /\ RaisedValueError => Len(requests) = 0)
    /\ [][pc = "except"
            => (pc' = "returned" /\ result' = None /\ requests' = requests)]_vars
    /\ [][outcome # "pending" => requests' = requests]_vars

C9_Witness ==
    /\ exc = "Timeout"
    /\ outcome = "returned"
    /\ result = None
    /\ Len(requests) = 1

\* C10: for every validated request and every parsed body,
\* get_account_payables does not raise and returns None or a mapping with
\* exactly the eight summary keys, whose year equals the requested year and
\* which is the summary of a record of the response's data list.
C10_ResultWellFormed ==
    (ValidationDone /\ ~BadArgs) =>
        /\ outcome # "raised"
        /\ outcome = "returned" =>
              \/ result = None
              \/ /\ result.t = "dict"
                 /\ DOMAIN result.v = SummaryKeys
                 /\ result.v.year.t \in {"int", "float", "bool"}
                 /\ result.v.year.v = year.v
                 /\ data.t = "dict"
                 /\ data.v.data.t = "list"
                 /\ \E i \in 1..Len(Recs) :
                       /\ Recs[i].t = "dict"
                       /\ result = SummaryOf(Recs[i])

C10_Witness ==
    /\ outcome = "returned"
    /\ result.t = "dict"
    /\ Len(Recs) = 2
    /\ result = SummaryOf(Recs[1])
    /\ Recs[2] = StrV("junk")

====
